---- MODULE Spec2Model ----
(***************************************************************************)
(* Query-answering pipeline of the AutoRAG backend (api/query.py,          *)
(* utils/vectorstore.py): the persisted configuration file, the persisted  *)
(* vector index, the module-level rag_chain built at import time, and the  *)
(* /query handler.                                                         *)
(***************************************************************************)
EXTENDS Integers, Sequences, FiniteSets, TLC

VARIABLES cfgFile, globalConfig, index, started, rag_chain, req, llmCall,
          extraction, environ, embCall, indexEmb, promptCall, wrapCall, ui

vars == <<cfgFile, globalConfig, index, started, rag_chain, req, llmCall,
          extraction, environ, embCall, indexEmb, promptCall, wrapCall, ui>>

----------------------------------------------------------------------------
(* Bounds of the model *)

\* number of ingestions that are followed (index versions 1..MaxIngest)
MaxIngest == 1
\* number of distinct questions a client asks
MaxQuestions == 1
\* number of fragments a raw model output is made of
MaxFrags == 3
\* number of passages an ingestion adds to the index
DocsPerIngest == 5
\* number of rankings a random query vector is followed with
MaxSeeds == 2
\* number of passages a retrieval hands to the prompt
MaxTexts == 3
\* number of submissions of the query form
MaxSubmits == 2

----------------------------------------------------------------------------
(* Values *)

\* Python None / a key that is not in a dict, for fields holding names
None == "<None>"
Absent == "<absent>"
\* the same two for the credential, which is a character sequence
NoToken == <<"<None>">>
AbsentToken == <<"<absent>">>

FlanT5 == "google/flan-t5-base"
Mixtral == "mistralai/Mixtral-8x7B-Instruct-v0.1"
Gpt2 == "gpt2"
DefaultApiVersion == "2024-05-01-preview"

Questions == 1..MaxQuestions

\* str.strip() on a character sequence
RECURSIVE LStrip(_)
LStrip(s) ==
    IF s = <<>> THEN s
    ELSE IF Head(s) = " " THEN LStrip(Tail(s)) ELSE s

RECURSIVE RStrip(_)
RStrip(s) ==
    IF s = <<>> THEN s
    ELSE IF s[Len(s)] = " " THEN RStrip(SubSeq(s, 1, Len(s) - 1)) ELSE s

Strip(s) == RStrip(LStrip(s))

\* truth value of a credential: None and "" are falsy
Truthy(t) == t # NoToken /\ t # AbsentToken /\ t # <<>>

\* "t5" in model.lower(), over the model names of the model
HasT5(model) == model \in {FlanT5}

----------------------------------------------------------------------------
(* The persisted configuration file ./configs/latest.json *)

Providers == {"local", "hf_free", "hf_paid", "azure", "openai"}
Models == {FlanT5, Mixtral, Gpt2}
Tokens == {NoToken, <<>>, <<" ">>, <<"t", "k">>, <<" ", "t", "k", " ">>}

FileRec(k, p, m, t, v, e) ==
    [kind |-> k, llm_provider |-> p, llm_model |-> m, api_token |-> t,
     api_version |-> v, azure_endpoint |-> e]

\* the values of the "LLM Provider" select of the configuration form
UIProviders == {"local", "openai", "anthropic", "azure", "huggingface"}

\* no file, a file that is not JSON, a JSON file without "llm_config",
\* an "llm_config" without any of the keys
FileMissing == FileRec("missing", None, None, NoToken, None, None)
FileMalformed == FileRec("malformed", None, None, NoToken, None, None)
FileNoLlm == FileRec("nollm", None, None, NoToken, None, None)
FileEmptyLlm == FileRec("llm", None, None, NoToken, None, None)

Files ==
    {FileMissing, FileMalformed, FileNoLlm, FileEmptyLlm}
    \cup {FileRec("llm", p, m, t, None, None) :
            p \in Providers, m \in Models, t \in Tokens}
    \cup {FileRec("llm", "azure", m, t, DefaultApiVersion, "https://e") :
            m \in Models, t \in Tokens}
    \cup {FileRec("llm", p, None, t, None, None) :
            p \in Providers, t \in {<<>>, <<"t", "k">>}}

\* the files that are saved while the service runs: a file that cannot be
\* parsed, an llm_config without keys (no provider), the local provider, the
\* hosted provider with the gated model and a padded credential, azure
\* without and with api_version and azure_endpoint
SavedFiles ==
    {FileMalformed, FileEmptyLlm,
     FileRec("llm", "local", Gpt2, <<>>, None, None),
     FileRec("llm", "hf_free", Mixtral, <<" ", "t", "k", " ">>, None, None),
     FileRec("llm", "azure", Gpt2, <<" ", "t", "k", " ">>, None, None),
     FileRec("llm", "azure", Gpt2, <<"t", "k">>, DefaultApiVersion, "https://e")}

\* a config dict as get_llm uses it
ConfigRec(p, m, t, v, e) ==
    [provider |-> p, model |-> m, token |-> t, api_version |-> v,
     azure_endpoint |-> e]

EmptyDict == ConfigRec(Absent, Absent, AbsentToken, Absent, Absent)

\* api.ingestion.global_config
GlobalConfigs ==
    {ConfigRec("local", FlanT5, <<>>, Absent, Absent),
     ConfigRec("hf_free", Mixtral, <<"t", "k">>, Absent, Absent)}

\* get_llm, lines 58-75: the dict read from the file, {} on any failure
LatestConfig(file) ==
    IF file.kind = "llm"
    THEN ConfigRec(file.llm_provider, file.llm_model, file.api_token,
                   file.api_version, file.azure_endpoint)
    ELSE EmptyDict

\* a built-in default instead of the module-level dict
ConfigToUse_BuiltinDefault(file, gcfg) ==
    IF LatestConfig(file) # EmptyDict THEN LatestConfig(file)
    ELSE ConfigRec("local", FlanT5, <<>>, Absent, Absent)

\* get_llm, line 78
ConfigToUse(file, gcfg) ==
    IF LatestConfig(file) # EmptyDict THEN LatestConfig(file) ELSE gcfg

\* dict.get(key, default)
Get(v, default) == IF v = Absent THEN default ELSE v
GetToken(v, default) == IF v = AbsentToken THEN default ELSE v

----------------------------------------------------------------------------
(* Generation backends and get_llm *)

Backend(k, m, task, t5, tok) ==
    [kind |-> k, model |-> m, task |-> task, is_t5 |-> t5, token |-> tok]

NoBackend == Backend(None, None, None, FALSE, NoToken)

\* which constructor calls raise: transformers.pipeline at lines 97, 128
\* and 156, HuggingFaceHub at line 140, AzureOpenAI at line 180
Fails == [local : BOOLEAN, fb1 : BOOLEAN, fb2 : BOOLEAN,
          hub : BOOLEAN, azure : BOOLEAN]

Returned(llm, calls) ==
    [out |-> "return", exc |-> None, status |-> 0, detail |-> None,
     llm |-> llm, calls |-> calls]
Raised(exc, status, detail, calls) ==
    [out |-> "raise", exc |-> exc, status |-> status, detail |-> detail,
     llm |-> NoBackend, calls |-> calls]

\* the local branch trying the hosted API when the pipeline cannot be built
LlmLocal_TriesHub(model, f) ==
    IF f.local \/ model = None
    THEN IF f.hub
         THEN Raised("HTTPException", 500, "Error loading local model",
                     <<"pipeline", "HuggingFaceHub">>)
         ELSE Returned(Backend("HuggingFaceHub", model, None, FALSE, <<>>),
                       <<"pipeline", "HuggingFaceHub">>)
    ELSE Returned(Backend("HFWrapper", model, "text-generation",
                          HasT5(model), NoToken),
                  <<"pipeline">>)

\* get_llm, lines 90-110
LlmLocal(model, f) ==
    IF f.local \/ model = None
    THEN Raised("HTTPException", 500, "Error loading local model",
                <<"pipeline">>)
    ELSE Returned(Backend("HFWrapper", model, "text-generation",
                          HasT5(model), NoToken),
                  <<"pipeline">>)

\* the except branch falling back to the gated model
LlmHfExcept_GatedFallback(f, calls) ==
    IF f.fb2
    THEN Raised("HTTPException", 500, "Error loading fallback model",
                Append(calls, "pipeline"))
    ELSE Returned(Backend("HFWrapper", Mixtral, "text-generation",
                          FALSE, NoToken),
                  Append(calls, "pipeline"))

\* get_llm, lines 147-167: the except branch of the hosted tiers
LlmHfExcept(f, calls) ==
    IF f.fb2
    THEN Raised("HTTPException", 500, "Error loading fallback model",
                Append(calls, "pipeline"))
    ELSE Returned(Backend("HFWrapper", FlanT5, "text2text-generation",
                          TRUE, NoToken),
                  Append(calls, "pipeline"))

\* the hosted tiers without the fallback: a failure is raised at once
LlmHf_NoFallback(model, token, f) ==
    IF ~Truthy(token) \/ model = Mixtral
    THEN IF f.fb1
         THEN Raised("HTTPException", 500, "Error loading fallback model",
                     <<"pipeline">>)
         ELSE Returned(Backend("HFWrapper", FlanT5, "text2text-generation",
                               TRUE, NoToken),
                       <<"pipeline">>)
    ELSE IF f.hub
         THEN Raised("HTTPException", 500, "Error loading fallback model",
                     <<"HuggingFaceHub">>)
         ELSE Returned(Backend("HuggingFaceHub", model, None, FALSE, token),
                       <<"HuggingFaceHub">>)

\* get_llm, lines 112-167
LlmHf(model, token, f) ==
    IF ~Truthy(token) \/ model = Mixtral
    THEN IF f.fb1
         THEN LlmHfExcept(f, <<"pipeline">>)
         ELSE Returned(Backend("HFWrapper", FlanT5, "text2text-generation",
                               TRUE, NoToken),
                       <<"pipeline">>)
    ELSE IF f.hub
         THEN LlmHfExcept(f, <<"HuggingFaceHub">>)
         ELSE Returned(Backend("HuggingFaceHub", model, None, FALSE, token),
                       <<"HuggingFaceHub">>)

\* get_llm, lines 169-191; assigning None to os.environ raises TypeError
LlmAzure(cfg, model, token, f) ==
    IF \/ token = NoToken
       \/ Get(cfg.api_version, DefaultApiVersion) = None
       \/ Get(cfg.azure_endpoint, "") = None
    THEN Raised("HTTPException", 500, "Error loading Azure OpenAI model",
                <<>>)
    ELSE IF f.azure
         THEN Raised("HTTPException", 500,
                     "Error loading Azure OpenAI model", <<"AzureOpenAI">>)
         ELSE Returned(Backend("AzureOpenAI", model, None, FALSE, token),
                       <<"AzureOpenAI">>)

\* get_llm, lines 80-81
Provider(cfg) == Get(cfg.provider, "local")
Model(cfg) == Get(cfg.model, FlanT5)

\* the credential used as it is stored, without strip()
Token_NoStrip(cfg) == GetToken(cfg.token, <<>>)

\* get_llm, lines 82-86
Token(cfg) ==
    LET token == GetToken(cfg.token, <<>>)
    IN  IF Truthy(token) THEN Strip(token) ELSE token

\* an unknown provider handled like the default provider
GetLlm_UnknownIsLocal(file, gcfg, f) ==
    LET cfg == ConfigToUse(file, gcfg)
    IN  IF Provider(cfg) \in {"hf_free", "hf_paid"}
        THEN LlmHf(Model(cfg), Token(cfg), f)
        ELSE IF Provider(cfg) = "azure"
             THEN LlmAzure(cfg, Model(cfg), Token(cfg), f)
        ELSE LlmLocal(Model(cfg), f)

\* get_llm, lines 56-194
GetLlm(file, gcfg, f) ==
    LET cfg == ConfigToUse(file, gcfg)
    IN  IF Provider(cfg) = "local" THEN LlmLocal(Model(cfg), f)
        ELSE IF Provider(cfg) \in {"hf_free", "hf_paid"}
             THEN LlmHf(Model(cfg), Token(cfg), f)
        ELSE IF Provider(cfg) = "azure"
             THEN LlmAzure(cfg, Model(cfg), Token(cfg), f)
        ELSE Raised("HTTPException", 400, "Unsupported LLM provider", <<>>)

----------------------------------------------------------------------------
(* Embedding functions and get_embeddings (utils/vectorstore.py) *)

\* os.environ["OPENAI_API_KEY"]: not set, or the credential last written
EnvUnset == <<"<unset>">>

\* get_llm, lines 169-176: the azure branch writes the credential into the
\* process environment; a None credential raises before anything is written
LlmEnviron(file, gcfg, env) ==
    LET cfg == ConfigToUse(file, gcfg)
    IN  IF Provider(cfg) = "azure" /\ Token(cfg) # NoToken
        THEN Token(cfg)
        ELSE env

MiniLMSize == 384
AdaSize == 1536
FakeSize == 384
\* the vector size of an arbitrary deployment is not known
UnknownSize == 0

Emb(k, m, s) == [kind |-> k, model |-> m, size |-> s]
AzureAda == Emb("AzureOpenAIEmbeddings", "text-embedding-ada-002", AdaSize)
AzureDeployment == Emb("AzureOpenAIEmbeddings", "azure_deployment", UnknownSize)
HuggingFace == Emb("HuggingFaceEmbeddings", "all-MiniLM-L6-v2", MiniLMSize)
OpenAI == Emb("OpenAIEmbeddings", "text-embedding-ada-002", AdaSize)
Fake == Emb("FakeEmbeddings", None, FakeSize)
NoEmb == Emb(None, None, 0)
Embs == {AzureAda, AzureDeployment, HuggingFace, OpenAI, Fake}

\* which constructors raise: the two Azure attempts, HuggingFaceEmbeddings,
\* OpenAIEmbeddings with a key in the environment
EmbFails == [ada : BOOLEAN, dep : BOOLEAN, hf : BOOLEAN, openai : BOOLEAN]

\* one constructor call: the embedding asked for and whether it was built
Attempt(e, ok) == [emb |-> e, ok |-> ok]

EmbReturned(e, calls, env) ==
    [out |-> "return", emb |-> e, calls |-> calls, env |-> env]
EmbRaised(calls, env) ==
    [out |-> "raise", emb |-> NoEmb, calls |-> calls, env |-> env]

NoEmbFails == [ada |-> FALSE, dep |-> FALSE, hf |-> FALSE, openai |-> FALSE]

\* get_embeddings, lines 42-56; OpenAIEmbeddings raises without a key in
\* the environment
EmbLadder(env, ef, calls) ==
    IF ~ef.hf
    THEN EmbReturned(HuggingFace, calls \o <<Attempt(HuggingFace, TRUE)>>, env)
    ELSE IF env # EnvUnset /\ ~ef.openai
    THEN EmbReturned(OpenAI,
                     calls \o <<Attempt(HuggingFace, FALSE),
                                Attempt(OpenAI, TRUE)>>, env)
    ELSE EmbReturned(Fake,
                     calls \o <<Attempt(HuggingFace, FALSE),
                                Attempt(OpenAI, FALSE),
                                Attempt(Fake, TRUE)>>, env)

\* the error of the second Azure attempt leaves get_embeddings
EmbExcept_Propagates(env, ef, calls) == EmbRaised(calls, env)

\* get_embeddings, lines 39-40
EmbExcept(env, ef, calls) == EmbLadder(env, ef, calls)

\* the Azure embeddings whenever the provider is azure
UsesAzure_NoCredential(file) ==
    /\ file.kind = "llm"
    /\ file.llm_provider = "azure"

\* get_embeddings, lines 15-20
UsesAzure(file) ==
    /\ file.kind = "llm"
    /\ Truthy(file.api_token)
    /\ file.llm_provider = "azure"

\* get_embeddings, lines 11-56; a key the file lacks is None in the file
\* record, the credential is written as it is stored
GetEmbeddings(file, env, ef) ==
    IF UsesAzure(file)
    THEN IF ~ef.ada
         THEN EmbReturned(AzureAda, <<Attempt(AzureAda, TRUE)>>,
                          file.api_token)
         ELSE IF ~ef.dep
         THEN EmbReturned(AzureDeployment,
                          <<Attempt(AzureAda, FALSE),
                            Attempt(AzureDeployment, TRUE)>>,
                          file.api_token)
         ELSE EmbExcept(file.api_token, ef,
                        <<Attempt(AzureAda, FALSE),
                          Attempt(AzureDeployment, FALSE)>>)
    ELSE EmbLadder(env, ef, <<>>)

\* get_embeddings, lines 20-25: the environment after the call, the same
\* whichever constructors raise
EmbEnviron(file, env) == GetEmbeddings(file, env, NoEmbFails).env

\* the constructor failures followed while the service runs: none, the
\* local model, the local model and the hosted API
ServiceEmbFails ==
    {ef \in EmbFails : ~ef.ada /\ ~ef.dep /\ (ef.openai => ef.hf)}

\* the embedding functions get_embeddings can return
ResolvedEmbs(file, env) ==
    {GetEmbeddings(file, env, ef).emb : ef \in ServiceEmbFails}

NoEmbCall ==
    [called |-> FALSE, fails |-> NoEmbFails, before |-> EnvUnset,
     res |-> EmbRaised(<<>>, EnvUnset)]

----------------------------------------------------------------------------
(* The persisted vector index ./vectorstore, get_retriever *)

\* 0: the path does not exist; v > 0: the index after the v-th ingestion
NoIndex == 0
NoRetriever == 0

\* get_retriever, lines 197-213: None, or a retriever over the index read
GetRetriever(idx, loadFails) ==
    IF idx = NoIndex THEN NoRetriever
    ELSE IF loadFails THEN NoRetriever
    ELSE idx

----------------------------------------------------------------------------
(* create_rag_chain *)

\* a message is the sequence of the fragments it is formatted from
NoMessage == <<>>
NoDocumentsIngested == <<"No documents have been ingested yet.">>
ErrorCreatingChain(detail) == <<"Error creating RAG chain: ", detail>>
NoVectorStore == <<"No vector store available.">>

Chain(k, msg, ver, llm) == [kind |-> k, message |-> msg, ver |-> ver, llm |-> llm]

NoChain == Chain(None, NoMessage, NoRetriever, NoBackend)

\* create_error_message_chain, lines 218-222
ErrorMessageChain(msg) == Chain("message", msg, NoRetriever, NoBackend)

\* create_rag_chain, lines 216-267
CreateRagChain(file, gcfg, idx, loadFails, f) ==
    LET retriever == GetRetriever(idx, loadFails)
        r == GetLlm(file, gcfg, f)
    IN  IF retriever = NoRetriever
        THEN ErrorMessageChain(NoDocumentsIngested)
        ELSE IF r.out = "raise"
             THEN ErrorMessageChain(ErrorCreatingChain(r.detail))
             ELSE Chain("rag", NoMessage, retriever, r.llm)

\* create_rag_chain, lines 226 and 233: what get_retriever and get_llm
\* leave in the environment
CreateRagChainEnviron(file, gcfg, idx, loadFails, env) ==
    IF idx = NoIndex THEN env
    ELSE IF loadFails THEN EmbEnviron(file, env)
    ELSE LlmEnviron(file, gcfg, EmbEnviron(file, env))

\* get_retriever, lines 202-208: get_embeddings is called when the path
\* exists
RetrieverEnviron(file, idx, env) ==
    IF idx = NoIndex THEN env ELSE EmbEnviron(file, env)

----------------------------------------------------------------------------
(* The /query handler *)

\* the raw output of rag_chain.invoke: the text of an error-message chain,
\* or what backend `by` generated for question q from the passages of
\* index version ctx
RawMessage(msg) == [kind |-> "message", message |-> msg, by |-> NoBackend,
                    ctx |-> NoRetriever, q |-> 0]
RawGenerated(llm, ver, q) == [kind |-> "generated", message |-> NoMessage,
                              by |-> llm, ctx |-> ver, q |-> q]
NoRaw == [kind |-> None, message |-> NoMessage, by |-> NoBackend,
          ctx |-> NoRetriever, q |-> 0]

\* the "sources" key of a response: absent, or the list of passage texts
NoSources == [present |-> FALSE, texts |-> <<>>]
Sources(texts) == [present |-> TRUE, texts |-> texts]

K == 4
Min(a, b) == IF a < b THEN a ELSE b

\* the passages of index version v: every ingestion adds DocsPerIngest
NumPassages(v) == v * DocsPerIngest

\* the passages of index version v by descending similarity to question q
\* (the similarity search of FAISS, here: nearest passage first, starting
\* at passage q)
Ranked(v, q) ==
    [i \in 1..NumPassages(v) |-> ((q + i - 2) % NumPassages(v)) + 1]

\* a retriever that returns every passage
Retrieve_NoLimit(v, q) == Ranked(v, q)

\* get_relevant_documents with search_kwargs k = 4, lines 210 and 294:
\* the page_content of the k nearest passages in rank order
Retrieve(v, q) == SubSeq(Ranked(v, q), 1, Min(NumPassages(v), K))

\* the query vector of FakeEmbeddings is random: any passage can be the
\* nearest; every other embedding function maps a question to one vector
Seeds(e, v, q) ==
    IF e = Fake THEN 1..Min(NumPassages(v), MaxSeeds) ELSE {q}

\* the similarity search of FAISS asserts that the query vector has the
\* size of the index
SizeMismatch(e, built) == e.size # built.size

Resp(shape, msg, answer, sources) ==
    [shape |-> shape, message |-> msg, answer |-> answer, sources |-> sources]

NoResp == Resp(None, NoMessage, NoRaw, NoSources)

\* what the body of the handler produces
ErrorResp(msg) == Resp("error", msg, NoRaw, NoSources)
AnswerResp(answer, sources) == Resp("answer", NoMessage, answer, sources)
Exc(msg) == Resp("raised", msg, NoRaw, NoSources)

\* the handler going on without a retriever
NoRetrieverGuard_Skipped(retriever) == FALSE

\* query, line 276: if not get_retriever()
NoRetrieverGuard(retriever) == retriever = NoRetriever

\* the handler without the try/except
Handler_NoExcept(outcome) == outcome

\* query, lines 275 and 303-304: try ... except Exception
Handler(outcome) ==
    IF outcome.shape = "raised" THEN ErrorResp(outcome.message) ELSE outcome

\* rag_chain.invoke(question), line 280
Invoke(chain, q, invokeFails) ==
    IF chain.kind = "message" THEN RawMessage(chain.message)
    ELSE IF invokeFails THEN NoRaw
    ELSE RawGenerated(chain.llm, chain.ver, q)

\* the steps of lines 280-287: a chain of create_rag_chain retrieves the
\* context and calls the backend, an error-message chain returns its text;
\* the extraction follows
InvokeSteps(raw) ==
    IF raw.kind = "generated" THEN <<"retrieve", "generate", "extract">>
    ELSE <<"extract">>

\* the passages the retriever of the chain supplied as {context} to the
\* generation call, lines 256-257
ContextOf(raw) == Retrieve(raw.ctx, raw.q)

\* the cue the prompt template ends with, line 246 and line 286
Cue == <<"A", "n", "s", "w", "e", "r", ":">>

\* "Answer:" in raw_answer
Contains(s, c) ==
    \E i \in 1..(Len(s) - Len(c) + 1) : SubSeq(s, i, i + Len(c) - 1) = c

\* str.find: the position of the leftmost occurrence
Find(s, c) ==
    CHOOSE i \in 1..(Len(s) - Len(c) + 1) :
        /\ SubSeq(s, i, i + Len(c) - 1) = c
        /\ \A j \in 1..(i - 1) : SubSeq(s, j, j + Len(c) - 1) # c

\* split taking the piece after the first separator
SplitLast_First(s, c) ==
    IF ~Contains(s, c) THEN s
    ELSE LET rest == SubSeq(s, Find(s, c) + Len(c), Len(s))
         IN  IF ~Contains(rest, c) THEN rest
             ELSE SubSeq(rest, 1, Find(rest, c) - 1)

\* raw_answer.split("Answer:")[-1]: split cuts at the occurrences from the
\* left, the last piece is what follows the last cut
RECURSIVE SplitLast(_, _)
SplitLast(s, c) ==
    IF ~Contains(s, c) THEN s
    ELSE SplitLast(SubSeq(s, Find(s, c) + Len(c), Len(s)), c)

\* query, lines 282-287
Extract(raw_answer) ==
    IF Contains(raw_answer, Cue)
    THEN Strip(SplitLast(raw_answer, Cue))
    ELSE raw_answer

\* raw outputs: up to MaxFrags fragments, each a blank, a letter, the first
\* letter of the cue or the cue
Fragments == {<<" ">>, <<"P">>, <<"A">>, Cue}

RECURSIVE TextsUpTo(_)
TextsUpTo(n) ==
    IF n = 0 THEN {<<>>}
    ELSE TextsUpTo(n - 1)
         \cup {t \o g : t \in TextsUpTo(n - 1), g \in Fragments}

RawTexts == TextsUpTo(MaxFrags)

\* one application of the extraction: the raw output and the answer
NoExtraction == [done |-> FALSE, raw |-> <<>>, answer |-> <<>>]

\* the answer of a request and the embedding function it was retrieved with
Answered(resp, e) == [resp |-> resp, emb |-> e]
NoAnswered == Answered(NoResp, NoEmb)

\* steps: the steps the handler has run for the request, in order: "load"
\* (get_retriever), "retrieve" (a similarity search), "generate" (the call
\* of the backend), "extract" (lines 282-287);
\* emb: the embedding function of the retriever of line 293 when its
\* passages were retrieved; prev: the answer of the request before when
\* that request had the same body and nothing was saved, persisted or
\* restarted since it began
Req(pc, q, inc, raw, generated, resp) ==
    [pc |-> pc, question |-> q, include_sources |-> inc, raw |-> raw,
     generated |-> generated, resp |-> resp, emb |-> NoEmb,
     prev |-> NoAnswered, steps |-> <<>>]

Idle == Req("idle", 0, FALSE, NoRaw, FALSE, NoResp)

\* the request record after a save or an ingestion: an answered request is
\* no longer the one before the next, a request in progress has no request
\* before it to compare with
Stale(r) ==
    IF r.pc = "done" THEN Idle ELSE [r EXCEPT !.prev = NoAnswered]

\* what a request with body (q, inc) has as the request before it
Previous(r, q, inc) ==
    IF /\ r.pc = "done"
       /\ r.resp.shape = "answer"
       /\ r.question = q
       /\ r.include_sources = inc
    THEN Answered(r.resp, r.emb)
    ELSE NoAnswered

\* the record of one call of get_llm: which constructors failed, the result
NoFails == [local |-> FALSE, fb1 |-> FALSE, fb2 |-> FALSE, hub |-> FALSE,
            azure |-> FALSE]
NoCall == [called |-> FALSE, fails |-> NoFails, res |-> Raised(None, 0, None, <<>>)]

----------------------------------------------------------------------------
(* The prompt of the chain (create_rag_chain) *)

\* the template of lines 236-247 in three pieces, around {question} and
\* {context}; " " stands for a run of blanks, "<instructions>" for the four
\* instruction sentences
TemplateHead ==
    <<"\n", " ", "<instructions>", "\n", " ", "\n", " ", "Question:", " ">>
TemplateMid == <<" ", "\n", " ", "\n", " ", "Context:", " ">>
TemplateTail == <<" ", "\n", " ", "\n", " ">> \o Cue \o <<"\n", " ">>

\* format_docs joining with a single newline
RECURSIVE FormatDocs_OneNewline(_)
FormatDocs_OneNewline(texts) ==
    IF texts = <<>> THEN <<>>
    ELSE IF Len(texts) = 1 THEN texts[1]
    ELSE texts[1] \o <<"\n">> \o FormatDocs_OneNewline(Tail(texts))

\* format_docs, lines 253-254: "\n\n".join of the page contents
RECURSIVE FormatDocs(_)
FormatDocs(texts) ==
    IF texts = <<>> THEN <<>>
    ELSE IF Len(texts) = 1 THEN texts[1]
    ELSE texts[1] \o <<"\n", "\n">> \o FormatDocs(Tail(texts))

\* rag_prompt applied to {"context": ..., "question": ...}, lines 250, 256-258
Prompt(question, texts) ==
    TemplateHead \o question \o TemplateMid \o FormatDocs(texts)
        \o TemplateTail

\* questions and page contents of the model
QuestionTexts == {<<"q">>, <<"q", " ", "r">>}
PassageTexts == {<<>>, <<"p">>, <<"s", "\n", "t">>}

RECURSIVE SeqsUpTo(_, _)
SeqsUpTo(S, n) ==
    IF n = 0 THEN {<<>>}
    ELSE SeqsUpTo(S, n - 1)
         \cup {Append(t, x) : t \in SeqsUpTo(S, n - 1), x \in S}

\* one assembly of a prompt
NoPromptCall ==
    [called |-> FALSE, question |-> <<>>, texts |-> <<>>, prompt |-> <<>>]

----------------------------------------------------------------------------
(* The wrapper of a local pipeline (HFWrapper) *)

\* the generated_text of a pipeline: a text-generation pipeline returns
\* the prompt followed by the continuation, a text2text-generation
\* pipeline returns the answer alone
Pipeline(task, prompt, cont) ==
    IF task = "text-generation" THEN prompt \o cont ELSE cont

\* HFWrapper._call, lines 40-48
WrapperCall(llm, prompt, cont) ==
    LET result == Pipeline(llm.task, prompt, cont)
    IN  IF llm.is_t5
        THEN Strip(result)
        ELSE Strip(SubSeq(result, Len(prompt) + 1, Len(result)))

\* the wrappers get_llm returns, over every configuration file
WrapperBackends ==
    {b \in {GetLlm(file, gcfg, f).llm :
               file \in Files, gcfg \in GlobalConfigs, f \in Fails} :
        b.kind = "HFWrapper"}

WrapPrompts == {<<"Q">>, <<"Q", " ">>, <<"Q", "Q">>}
WrapConts == {<<>>, <<"a">>, <<" ", "a">>, <<"a", " ">>, <<"Q", "a">>}

NoWrapCall ==
    [called |-> FALSE, llm |-> NoBackend, prompt |-> <<>>, cont |-> <<>>,
     out |-> <<>>]

----------------------------------------------------------------------------
(* The query form (QueryInterface.jsx) *)

\* the state of the component and of its parent after the first render,
\* lines 5-12; searchOption is held as its pieces between "_";
\* inflight: the requests awaited at line 30; submitted: their number;
\* method: the search method the user selected last
UiInit ==
    [query |-> "", sources |-> "", showSources |-> FALSE,
     localAnswer |-> "", isLoading |-> FALSE, error |-> "",
     searchOption |-> <<"local", "semantic">>,
     answer |-> "", globalIsLoading |-> FALSE, globalError |-> "",
     inflight |-> {}, submitted |-> 0, method |-> "semantic"]

\* the questions a user types, and what /query answers to them
UiQueries == {"q1", "q2"}
AnswerTo(q) == IF q = "q1" THEN "a1" ELSE "a2"
SourcesOf(q) == IF q = "q1" THEN "s1" ELSE "s2"
HandledMessage == "No vector store available. Please ingest documents first."
ThrownMessage == "Network Error"

Methods == {"semantic", "hybrid", "reranking"}

\* searchOption.startsWith('local_'), searchOption.startsWith('google_drive_')
StartsWithLocal(o) == Len(o) >= 2 /\ o[1] = "local"
StartsWithDrive(o) == Len(o) >= 3 /\ o[1] = "google" /\ o[2] = "drive"

\* searchOption.includes(w), for a word w without "_"
Includes(o, w) == \E i \in 1..Len(o) : o[i] = w

\* searchOption.split('_')[i - 1] || 'semantic'
PieceOrSemantic(o, i) ==
    IF Len(o) >= i /\ o[i] # "" THEN o[i] ELSE "semantic"

\* handleSubmit, line 26
StorageType(o) == IF StartsWithDrive(o) THEN "google_drive" ELSE "local"

\* handleSubmit, lines 27-28
SearchMethod(o) ==
    IF Includes(o, "hybrid") THEN "hybrid"
    ELSE IF Includes(o, "reranking") THEN "reranking"
    ELSE "semantic"

\* the body of the POST of lines 30-35 with the number of the submission
Posted(id, u) ==
    [id |-> id, question |-> u.query, include_sources |-> u.showSources,
     search_option |-> SearchMethod(u.searchOption),
     storage_type |-> StorageType(u.searchOption)]

\* what the awaited POST of a request ends with: a response whose data
\* holds an answer (and sources when asked for), a response whose data is
\* {status: "error", message} (HTTP 200), or a rejection
Outcomes == {"answer", "handled", "thrown"}
Data(r, outcome) ==
    IF outcome = "answer"
    THEN [answer |-> AnswerTo(r.question),
          sources |-> IF r.include_sources THEN SourcesOf(r.question) ELSE "",
          message |-> ""]
    ELSE [answer |-> "", sources |-> "", message |-> HandledMessage]

----------------------------------------------------------------------------
(* Actions *)

Init ==
    /\ cfgFile = FileMissing
    /\ globalConfig \in GlobalConfigs
    /\ index = NoIndex
    /\ started = FALSE
    /\ rag_chain = NoChain
    /\ req = Idle
    /\ llmCall = NoCall
    /\ extraction = NoExtraction
    /\ environ = EnvUnset
    /\ embCall = NoEmbCall
    /\ indexEmb = NoEmb
    /\ promptCall = NoPromptCall
    /\ wrapCall = NoWrapCall
    /\ ui = UiInit

\* the configuration UI / ingestion API persists a configuration
SaveConfig ==
    /\ \E file \in SavedFiles : cfgFile' = file
    /\ req' = Stale(req)
    /\ UNCHANGED <<globalConfig, index, started, rag_chain, llmCall, extraction,
                   environ, embCall, indexEmb,
                   promptCall, wrapCall, ui>>

\* the ingestion pipeline persists a new index
Ingest ==
    /\ index < MaxIngest
    /\ index' = index + 1
    /\ indexEmb' \in ResolvedEmbs(cfgFile, environ)
    /\ environ' = EmbEnviron(cfgFile, environ)
    /\ req' = Stale(req)
    /\ UNCHANGED <<cfgFile, globalConfig, started, rag_chain, llmCall,
                   extraction, embCall,
                   promptCall, wrapCall, ui>>

\* import of api/query.py at service (re)start: line 270
\* the new process starts without what the old one wrote into os.environ
Startup ==
    /\ \E p \in {<<CreateRagChain(cfgFile, globalConfig, index, loadFails, f),
                    CreateRagChainEnviron(cfgFile, globalConfig, index,
                                          loadFails, EnvUnset)>> :
                    loadFails \in BOOLEAN, f \in Fails} :
         /\ rag_chain' = p[1]
         /\ environ' = p[2]
    /\ started' = TRUE
    /\ req' = Idle
    /\ UNCHANGED <<cfgFile, globalConfig, index, llmCall, extraction, embCall,
                   indexEmb,
                   promptCall, wrapCall, ui>>

\* query, lines 274-277
QueryCheck ==
    /\ started
    /\ req.pc \in {"idle", "done"}
    /\ \E q \in Questions, inc \in BOOLEAN, loadFails \in BOOLEAN :
         req' = IF NoRetrieverGuard(GetRetriever(index, loadFails))
                THEN [Req("done", q, inc, NoRaw, FALSE,
                          Handler(ErrorResp(NoVectorStore)))
                        EXCEPT !.steps = <<"load">>]
                ELSE [Req("checked", q, inc, NoRaw, FALSE, NoResp)
                        EXCEPT !.prev = Previous(req, q, inc),
                               !.steps = <<"load">>]
    /\ environ' = RetrieverEnviron(cfgFile, index, environ)
    /\ UNCHANGED <<cfgFile, globalConfig, index, started, rag_chain, llmCall,
                   extraction, embCall, indexEmb,
                   promptCall, wrapCall, ui>>

QueryInvoke_DropsIndex ==
    /\ req.pc = "checked"
    /\ \E invokeFails \in BOOLEAN :
         LET raw == Invoke(rag_chain, req.question, invokeFails)
         IN  req' = IF raw = NoRaw
                    THEN [req EXCEPT !.pc = "done",
                                     !.generated = TRUE,
                                     !.resp = Handler(Exc(<<"invoke failed">>)),
                                     !.steps = @ \o <<"retrieve">>]
                    ELSE [req EXCEPT !.pc = "invoked",
                                     !.raw = raw,
                                     !.generated = (raw.kind = "generated"),
                                     !.steps = @ \o InvokeSteps(raw)]
    /\ index' = NoIndex
    /\ UNCHANGED <<cfgFile, globalConfig, started, rag_chain, llmCall, extraction, environ, embCall, indexEmb,
                   promptCall, wrapCall, ui>>

\* query, lines 279-290
QueryInvoke ==
    /\ req.pc = "checked"
    /\ \E invokeFails \in BOOLEAN :
         LET raw == Invoke(rag_chain, req.question, invokeFails)
         IN  req' = IF raw = NoRaw
                    THEN [req EXCEPT !.pc = "done",
                                     !.generated = TRUE,
                                     !.resp = Handler(Exc(<<"invoke failed">>)),
                                     !.steps = @ \o <<"retrieve">>]
                    ELSE [req EXCEPT !.pc = "invoked",
                                     !.raw = raw,
                                     !.generated = (raw.kind = "generated"),
                                     !.steps = @ \o InvokeSteps(raw)]
    /\ UNCHANGED <<cfgFile, globalConfig, index, started, rag_chain, llmCall, extraction, environ, embCall, indexEmb,
                   promptCall, wrapCall, ui>>

\* query, lines 292-301
QuerySources ==
    /\ req.pc = "invoked"
    /\ \E loadFails \in BOOLEAN, retrieveFails \in BOOLEAN,
          e \in ResolvedEmbs(cfgFile, environ) :
         \E seed \in Seeds(e, index, req.question) :
           LET retriever == GetRetriever(index, loadFails)
               outcome ==
                   IF retriever = NoRetriever
                   THEN Exc(<<"'NoneType' object has no attribute">>)
                   ELSE IF retrieveFails THEN Exc(<<"retrieval failed">>)
                   ELSE IF SizeMismatch(e, indexEmb) THEN Exc(<<"">>)
                   ELSE AnswerResp(req.raw,
                                   IF req.include_sources
                                   THEN Sources(Retrieve(retriever, seed))
                                   ELSE NoSources)
           IN  req' = [req EXCEPT !.pc = "done", !.resp = Handler(outcome),
                                  !.emb = IF outcome.shape = "answer"
                                          THEN e ELSE NoEmb,
                                  !.steps = @ \o
                                      IF retriever = NoRetriever
                                      THEN <<"load">>
                                      ELSE <<"load", "retrieve">>]
    /\ environ' = RetrieverEnviron(cfgFile, index, environ)
    /\ UNCHANGED <<cfgFile, globalConfig, index, started, rag_chain, llmCall,
                   extraction, embCall, indexEmb,
                   promptCall, wrapCall, ui>>

Next ==
    \/ SaveConfig
    \/ Ingest
    \/ Startup
    \/ QueryCheck
    \/ QueryInvoke
    \/ QuerySources

Spec == Init /\ [][Next]_vars

----------------------------------------------------------------------------
(* get_llm on its own: every configuration file, every combination of     *)
(* constructor failures                                                    *)

InitLlm ==
    /\ cfgFile \in Files
    /\ globalConfig \in GlobalConfigs
    /\ index = NoIndex
    /\ started = FALSE
    /\ rag_chain = NoChain
    /\ req = Idle
    /\ llmCall = NoCall
    /\ extraction = NoExtraction
    /\ environ = EnvUnset
    /\ embCall = NoEmbCall
    /\ indexEmb = NoEmb
    /\ promptCall = NoPromptCall
    /\ wrapCall = NoWrapCall
    /\ ui = UiInit

CallGetLlm ==
    /\ ~llmCall.called
    /\ \E f \in Fails :
         llmCall' = [called |-> TRUE, fails |-> f,
                     res |-> GetLlm(cfgFile, globalConfig, f)]
    /\ environ' = LlmEnviron(cfgFile, globalConfig, environ)
    /\ UNCHANGED <<cfgFile, globalConfig, index, started, rag_chain, req,
                   extraction, embCall, indexEmb,
                   promptCall, wrapCall, ui>>

NextLlm == CallGetLlm

SpecLlm == InitLlm /\ [][NextLlm]_vars

----------------------------------------------------------------------------
(* The answer extraction on its own: every raw output *)

InitExtract ==
    /\ cfgFile = FileMissing
    /\ globalConfig \in GlobalConfigs
    /\ index = NoIndex
    /\ started = FALSE
    /\ rag_chain = NoChain
    /\ req = Idle
    /\ llmCall = NoCall
    /\ extraction \in {[done |-> FALSE, raw |-> t, answer |-> <<>>] :
                          t \in RawTexts}
    /\ environ = EnvUnset
    /\ embCall = NoEmbCall
    /\ indexEmb = NoEmb
    /\ promptCall = NoPromptCall
    /\ wrapCall = NoWrapCall
    /\ ui = UiInit

CallExtract ==
    /\ ~extraction.done
    /\ extraction' = [extraction EXCEPT !.done = TRUE,
                                        !.answer = Extract(extraction.raw)]
    /\ UNCHANGED <<cfgFile, globalConfig, index, started, rag_chain, req,
                   llmCall, environ, embCall, indexEmb,
                   promptCall, wrapCall, ui>>

NextExtract == CallExtract

SpecExtract == InitExtract /\ [][NextExtract]_vars

----------------------------------------------------------------------------
(* get_embeddings on its own: every configuration file, with and without  *)
(* a key in the environment, every combination of constructor failures    *)

InitEmb ==
    /\ cfgFile \in Files
    /\ globalConfig \in GlobalConfigs
    /\ index = NoIndex
    /\ started = FALSE
    /\ rag_chain = NoChain
    /\ req = Idle
    /\ llmCall = NoCall
    /\ extraction = NoExtraction
    /\ environ \in {EnvUnset, <<"t", "k">>}
    /\ embCall = NoEmbCall
    /\ indexEmb = NoEmb
    /\ promptCall = NoPromptCall
    /\ wrapCall = NoWrapCall
    /\ ui = UiInit

CallGetEmbeddings ==
    /\ ~embCall.called
    /\ \E ef \in EmbFails :
         /\ embCall' = [called |-> TRUE, fails |-> ef, before |-> environ,
                        res |-> GetEmbeddings(cfgFile, environ, ef)]
         /\ environ' = GetEmbeddings(cfgFile, environ, ef).env
    /\ UNCHANGED <<cfgFile, globalConfig, index, started, rag_chain, req,
                   llmCall, extraction, indexEmb,
                   promptCall, wrapCall, ui>>

NextEmb == CallGetEmbeddings

SpecEmb == InitEmb /\ [][NextEmb]_vars

----------------------------------------------------------------------------
(* The prompt on its own: every question with every sequence of up to     *)
(* MaxTexts page contents                                                 *)

InitPrompt ==
    /\ cfgFile = FileMissing
    /\ globalConfig \in GlobalConfigs
    /\ index = NoIndex
    /\ started = FALSE
    /\ rag_chain = NoChain
    /\ req = Idle
    /\ llmCall = NoCall
    /\ extraction = NoExtraction
    /\ environ = EnvUnset
    /\ embCall = NoEmbCall
    /\ indexEmb = NoEmb
    /\ promptCall \in {[NoPromptCall EXCEPT !.question = q, !.texts = t] :
                          q \in QuestionTexts,
                          t \in SeqsUpTo(PassageTexts, MaxTexts)}
    /\ wrapCall = NoWrapCall
    /\ ui = UiInit

CallPrompt ==
    /\ ~promptCall.called
    /\ promptCall' = [promptCall EXCEPT
                         !.called = TRUE,
                         !.prompt = Prompt(promptCall.question,
                                           promptCall.texts)]
    /\ UNCHANGED <<cfgFile, globalConfig, index, started, rag_chain, req,
                   llmCall, extraction, environ, embCall, indexEmb,
                   wrapCall, ui>>

NextPrompt == CallPrompt

SpecPrompt == InitPrompt /\ [][NextPrompt]_vars

----------------------------------------------------------------------------
(* The wrapper on its own: every wrapper get_llm returns, with every      *)
(* prompt and continuation of the model                                   *)

InitWrap ==
    /\ cfgFile = FileMissing
    /\ globalConfig \in GlobalConfigs
    /\ index = NoIndex
    /\ started = FALSE
    /\ rag_chain = NoChain
    /\ req = Idle
    /\ llmCall = NoCall
    /\ extraction = NoExtraction
    /\ environ = EnvUnset
    /\ embCall = NoEmbCall
    /\ indexEmb = NoEmb
    /\ promptCall = NoPromptCall
    /\ wrapCall \in {[NoWrapCall EXCEPT !.llm = b, !.prompt = p, !.cont = c] :
                        b \in WrapperBackends, p \in WrapPrompts,
                        c \in WrapConts}
    /\ ui = UiInit

CallWrapper ==
    /\ ~wrapCall.called
    /\ wrapCall' = [wrapCall EXCEPT
                       !.called = TRUE,
                       !.out = WrapperCall(wrapCall.llm, wrapCall.prompt,
                                           wrapCall.cont)]
    /\ UNCHANGED <<cfgFile, globalConfig, index, started, rag_chain, req,
                   llmCall, extraction, environ, embCall, indexEmb,
                   promptCall, ui>>

NextWrap == CallWrapper

SpecWrap == InitWrap /\ [][NextWrap]_vars

----------------------------------------------------------------------------
(* The query form on its own: typing, the check box, the radio buttons,   *)
(* up to MaxSubmits submissions and their completions in any order        *)

InitUi ==
    /\ cfgFile = FileMissing
    /\ globalConfig = EmptyDict
    /\ index = NoIndex
    /\ started = FALSE
    /\ rag_chain = NoChain
    /\ req = Idle
    /\ llmCall = NoCall
    /\ extraction = NoExtraction
    /\ environ = EnvUnset
    /\ embCall = NoEmbCall
    /\ indexEmb = NoEmb
    /\ promptCall = NoPromptCall
    /\ wrapCall = NoWrapCall
    /\ ui = UiInit

UiFrame ==
    UNCHANGED <<cfgFile, globalConfig, index, started, rag_chain, req,
                llmCall, extraction, environ, embCall, indexEmb,
                promptCall, wrapCall>>

\* the text input, line 124
SetQuery(q) ==
    /\ q # ui.query
    /\ ui' = [ui EXCEPT !.query = q]
    /\ UiFrame

\* the check box, line 138
ToggleSources ==
    /\ ui' = [ui EXCEPT !.showSources = ~@]
    /\ UiFrame

\* the radio button "Local Storage", lines 158-163; a radio button fires
\* onChange only when it is not the checked one
SelectLocal ==
    /\ ~StartsWithLocal(ui.searchOption)
    /\ ui' = [ui EXCEPT
                !.searchOption = <<"local", PieceOrSemantic(@, 2)>>]
    /\ UiFrame

\* the radio button "Google Drive", lines 176-181
SelectDrive ==
    /\ ~StartsWithDrive(ui.searchOption)
    /\ ui' = [ui EXCEPT
                !.searchOption = <<"google", "drive", PieceOrSemantic(@, 3)>>]
    /\ UiFrame

\* the radio buttons of the search methods, lines 202-207, 220-225, 238-243
SelectMethod(m) ==
    /\ ~Includes(ui.searchOption, m)
    /\ ui' = [ui EXCEPT
                !.searchOption = IF StartsWithDrive(@)
                                 THEN <<"google", "drive", m>>
                                 ELSE <<"local", m>>,
                !.method = m]
    /\ UiFrame

\* handleSubmit up to the await, lines 16-35; the input is required
\* (line 128) and the button is never disabled (lines 254-260)
Submit ==
    /\ ui.query # ""
    /\ ui.submitted < MaxSubmits
    /\ ui' = [ui EXCEPT
                !.isLoading = TRUE,
                !.globalIsLoading = TRUE,
                !.error = "",
                !.answer = "",
                !.sources = "",
                !.submitted = @ + 1,
                !.inflight = @ \cup {Posted(ui.submitted + 1, ui)}]
    /\ UiFrame

\* handleSubmit after the await, lines 37-49
Respond(r, outcome) ==
    /\ r \in ui.inflight
    /\ ui' = IF outcome = "thrown"
             THEN [ui EXCEPT
                     !.error = ThrownMessage,
                     !.globalError = ThrownMessage,
                     !.isLoading = FALSE,
                     !.globalIsLoading = FALSE,
                     !.inflight = @ \ {r}]
             ELSE [ui EXCEPT
                     !.localAnswer = Data(r, outcome).answer,
                     !.sources = IF Data(r, outcome).sources # ""
                                 THEN Data(r, outcome).sources ELSE @,
                     !.answer = Data(r, outcome).answer,
                     !.isLoading = FALSE,
                     !.globalIsLoading = FALSE,
                     !.inflight = @ \ {r}]
    /\ UiFrame

NextUi ==
    \/ \E q \in UiQueries : SetQuery(q)
    \/ ToggleSources
    \/ SelectLocal
    \/ SelectDrive
    \/ \E m \in Methods : SelectMethod(m)
    \/ Submit
    \/ \E r \in ui.inflight, outcome \in Outcomes : Respond(r, outcome)

SpecUi == InitUi /\ [][NextUi]_vars

----------------------------------------------------------------------------
(* Properties of get_llm, checked under SpecLlm *)

\* the configuration get_llm works on in the recorded call
CallCfg == ConfigToUse(cfgFile, globalConfig)
CallHosted == Provider(CallCfg) \in {"hf_free", "hf_paid"}
RemoteCalled ==
    \E i \in 1..Len(llmCall.res.calls) :
        llmCall.res.calls[i] \in {"HuggingFaceHub", "AzureOpenAI"}
SafeDefault ==
    Backend("HFWrapper", FlanT5, "text2text-generation", TRUE, NoToken)
RaisedHTTP(status) ==
    /\ llmCall.res.out = "raise"
    /\ llmCall.res.exc = "HTTPException"
    /\ llmCall.res.status = status

\* the credential as stored is None, empty or made of blanks only
CredentialAbsent(t) ==
    \/ t \in {NoToken, AbsentToken}
    \/ \A i \in 1..Len(t) : t[i] = " "

\* the cases in which the code of get_llm reaches one of its raise statements
RaiseCase ==
    LET f == llmCall.fails
        p == Provider(CallCfg)
    IN  \/ p = "local" /\ (f.local \/ Model(CallCfg) = None)
        \/ /\ CallHosted
           /\ f.fb2
           /\ IF CredentialAbsent(CallCfg.token) \/ Model(CallCfg) = Mixtral
              THEN f.fb1 ELSE f.hub
        \/ /\ p = "azure"
           /\ \/ f.azure
              \/ CallCfg.token = NoToken
              \/ CallCfg.api_version = None
              \/ CallCfg.azure_endpoint = None
        \/ p \notin {"local", "hf_free", "hf_paid", "azure"}

\* C6 (as claimed): get_llm never throws, for every configuration and every
\* combination of construction failures it returns a backend
C6_NeverThrows == llmCall.called => llmCall.res.out = "return"

\* C6 (amended): get_llm returns a backend except when the local pipeline
\* cannot be built (provider local), the fallback pipeline cannot be built
\* (hosted tiers), the enterprise client cannot be built (azure) or the
\* provider is unknown; then it raises HTTPException and nothing else
C6_ThrowsOnlyHTTPException ==
    llmCall.called =>
        /\ llmCall.res.out = "raise" <=> RaiseCase
        /\ llmCall.res.out = "raise" =>
              /\ llmCall.res.exc = "HTTPException"
              /\ llmCall.res.status \in {400, 500}
              /\ llmCall.res.status = 400 <=>
                    Provider(CallCfg) \notin {"local", "hf_free", "hf_paid", "azure"}
        /\ llmCall.res.out = "return" => llmCall.res.llm # NoBackend

C6_Witness ==
    /\ llmCall.called
    /\ CallHosted
    /\ llmCall.fails.hub
    /\ llmCall.res.out = "return"
    /\ llmCall.res.calls = <<"HuggingFaceHub", "pipeline">>

\* C7: with provider local no remote backend is constructed; get_llm
\* returns a local pipeline backend for the configured model or fails
C7_LocalNeverRemote ==
    (llmCall.called /\ Provider(CallCfg) = "local") =>
        /\ ~RemoteCalled
        /\ \/ llmCall.res.out = "raise"
           \/ /\ llmCall.res.out = "return"
              /\ llmCall.res.llm.kind = "HFWrapper"
              /\ llmCall.res.llm.model = Model(CallCfg)

C7_Witness ==
    /\ llmCall.called
    /\ Provider(CallCfg) = "local"
    /\ cfgFile.kind = "llm"
    /\ llmCall.fails.hub = FALSE
    /\ llmCall.res.out = "return"
    /\ llmCall.res.llm.model = Gpt2

\* the case of C8: a hosted tier without credential or with the gated model
C8_Case ==
    /\ llmCall.called
    /\ CallHosted
    /\ CredentialAbsent(CallCfg.token) \/ Model(CallCfg) = Mixtral

\* C8 (as claimed): a hosted tier without credential (empty or blank) or
\* with the gated model returns the safe default local model and never
\* constructs the remote client
C8_SafeDefaultReturned ==
    C8_Case =>
        /\ llmCall.res.out = "return"
        /\ llmCall.res.llm = SafeDefault
        /\ ~RemoteCalled

\* C8 (amended): in that case the remote client is never constructed and
\* get_llm returns the safe default local model, built at the first or at
\* the second attempt; when both attempts fail it raises HTTPException 500
C8_SafeDefaultOrRaise ==
    C8_Case =>
        /\ ~RemoteCalled
        /\ IF llmCall.fails.fb1 /\ llmCall.fails.fb2
           THEN RaisedHTTP(500)
           ELSE llmCall.res.out = "return" /\ llmCall.res.llm = SafeDefault

C8_Witness ==
    /\ C8_Case
    /\ CallCfg.token = <<" ">>
    /\ Model(CallCfg) = Gpt2
    /\ llmCall.res.out = "return"
    /\ llmCall.res.llm = SafeDefault

\* the case of C9: a hosted tier with a credential and a model that is
\* not gated
C9_Case ==
    /\ llmCall.called
    /\ CallHosted
    /\ ~CredentialAbsent(CallCfg.token)
    /\ Model(CallCfg) # Mixtral

\* C9 (as claimed): whenever the construction of the remote backend
\* raises, get_llm returns the safe default local model; the remote backend
\* is returned only when its construction succeeded
C9_RemoteFailureFallsBack ==
    C9_Case =>
        /\ llmCall.fails.hub =>
              llmCall.res.out = "return" /\ llmCall.res.llm = SafeDefault
        /\ llmCall.res.llm.kind = "HuggingFaceHub" => ~llmCall.fails.hub

\* C9 (amended): when the construction of the remote backend raises,
\* get_llm returns the safe default local model if that one can be built
\* and raises HTTPException 500 if not; when it succeeds the remote backend
\* for the configured model and the stripped credential is returned
C9_RemoteFailureFallsBackOrRaises ==
    C9_Case =>
        /\ (llmCall.fails.hub /\ ~llmCall.fails.fb2) =>
              llmCall.res.out = "return" /\ llmCall.res.llm = SafeDefault
        /\ (llmCall.fails.hub /\ llmCall.fails.fb2) => RaisedHTTP(500)
        /\ ~llmCall.fails.hub =>
              /\ llmCall.res.out = "return"
              /\ llmCall.res.llm =
                    Backend("HuggingFaceHub", Model(CallCfg), None, FALSE,
                            Strip(CallCfg.token))

C9_Witness ==
    /\ C9_Case
    /\ llmCall.fails.hub
    /\ ~llmCall.fails.fb2
    /\ llmCall.res.llm = SafeDefault
    /\ llmCall.res.calls = <<"HuggingFaceHub", "pipeline">>

\* the case of C14: no file, a file that cannot be parsed, or a file
\* without the llm_config section
C14_Case ==
    /\ llmCall.called
    /\ cfgFile.kind \in {"missing", "malformed", "nollm"}

KnownProviders == {"local", "hf_free", "hf_paid", "azure"}

\* C15 (as claimed): the provider the resolver dispatches on is always
\* one of local, hf_free, hf_paid, azure, whatever the file holds
C15_ProviderInClosedSet ==
    llmCall.called => Provider(CallCfg) \in KnownProviders

\* C15 (amended): the resolver dispatches on whatever the file holds as
\* llm_provider (None when the key is missing); a value outside the four
\* providers is rejected with HTTPException 400 before any backend is
\* constructed, a value inside is never rejected that way
C15_UnknownProviderRejected ==
    llmCall.called =>
        IF Provider(CallCfg) \in KnownProviders
        THEN llmCall.res.status # 400
        ELSE RaisedHTTP(400) /\ llmCall.res.calls = <<>>

C15_Witness ==
    /\ llmCall.called
    /\ cfgFile = FileEmptyLlm
    /\ Provider(CallCfg) = None
    /\ RaisedHTTP(400)

----------------------------------------------------------------------------
(* Properties of the service, checked under Spec *)

\* the provider of the configuration persisted now
CurrentProvider == Provider(ConfigToUse(cfgFile, globalConfig))
\* the backends get_llm can resolve from the configuration persisted now
CurrentBackends ==
    {GetLlm(cfgFile, globalConfig, f).llm : f \in Fails} \ {NoBackend}

\* C1: the backend that generates the answer of a request is one resolved
\* from the configuration persisted when the request is answered
C1_ConfigFreshness ==
    [][(QueryInvoke /\ req'.raw.kind = "generated")
          => req'.raw.by \in CurrentBackends]_vars

\* C2: the passages used as context of an answer are those of the index
\* persisted when the request is answered, and a request made while an
\* index exists is not answered with the "no documents ingested" text
C2_IndexFreshness ==
    [][(QueryInvoke /\ req'.pc = "invoked")
          => /\ req'.raw.kind = "generated" => req'.raw.ctx = index
             /\ req'.raw.message # NoDocumentsIngested]_vars

\* C3: a request made while no index exists on disk ends at once with the
\* error response "nothing ingested", without any generation and without
\* a propagated exception
C3_NoIndexIsHandledError ==
    [][(QueryCheck /\ index = NoIndex)
          => /\ req'.pc = "done"
             /\ req'.resp = ErrorResp(NoVectorStore)
             /\ ~req'.generated]_vars

C3_Witness ==
    /\ index = NoIndex
    /\ req.pc = "done"
    /\ req.resp.shape = "error"
    /\ req.resp.message = NoVectorStore

\* C4: an error text is never returned inside a success-shaped response:
\* the answer of every {answer: ...} response was generated by a backend
C4_OneErrorShape ==
    (req.pc = "done" /\ req.resp.shape = "answer")
        => req.resp.answer.kind = "generated"

\* C5: no exception escapes the handler: a finished request has a returned
\* response, of the answer or of the error shape
C5_NoExceptionEscapes ==
    req.pc = "done" => req.resp.shape \in {"answer", "error"}

C5_Witness ==
    /\ req.pc = "done"
    /\ req.resp.shape = "error"
    /\ req.resp.message \in {<<"invoke failed">>, <<"retrieval failed">>,
                             <<"'NoneType' object has no attribute">>}

\* C10: with provider azure no other backend is substituted: get_llm
\* returns the enterprise client or raises, an answer given while the
\* persisted provider is azure is generated by the enterprise client, and
\* a failed construction of the enterprise client ends in an error
\* response, not in an answer
C10_NoSubstitution ==
    [][(QueryInvoke /\ CurrentProvider = "azure" /\ req'.pc = "invoked")
          => /\ \A f \in Fails :
                   LET r == GetLlm(cfgFile, globalConfig, f)
                   IN  r.out = "raise" \/ r.llm.kind = "AzureOpenAI"
             /\ req'.raw.kind = "generated"
                   => req'.raw.by.kind = "AzureOpenAI"
             /\ req'.raw.message #
                   ErrorCreatingChain("Error loading Azure OpenAI model")]_vars

----------------------------------------------------------------------------
(* Properties of the answer extraction, checked under SpecExtract *)

\* the cue occurs in s at position i
CueAt(s, i) == i + Len(Cue) - 1 <= Len(s) /\ SubSeq(s, i, i + Len(Cue) - 1) = Cue
HasCue(s) == \E i \in 1..Len(s) : CueAt(s, i)
\* what follows the last occurrence of the cue
AfterLastCue(s) ==
    LET last == CHOOSE i \in 1..Len(s) :
                    CueAt(s, i) /\ \A j \in (i + 1)..Len(s) : ~CueAt(s, j)
    IN  SubSeq(s, last + Len(Cue), Len(s))
\* t has no blank at either end
Trimmed(t) == t = <<>> \/ (t[1] # " " /\ t[Len(t)] # " ")
\* t is s without the blanks at its ends
IsTrimOf(t, s) ==
    /\ Trimmed(t)
    /\ \E i \in 0..Len(s), j \in 0..Len(s) :
          /\ i + j <= Len(s)
          /\ t = SubSeq(s, i + 1, Len(s) - j)
          /\ \A k \in 1..i : s[k] = " "
          /\ \A k \in (Len(s) - j + 1)..Len(s) : s[k] = " "

\* C11 (as claimed): with the cue in the raw output the answer is what
\* follows its last occurrence, trimmed; without the cue the answer is the
\* raw output, trimmed
C11_ExtractTrimsAlways ==
    extraction.done =>
        IF HasCue(extraction.raw)
        THEN IsTrimOf(extraction.answer, AfterLastCue(extraction.raw))
        ELSE IsTrimOf(extraction.answer, extraction.raw)

\* C11 (amended): with the cue in the raw output the answer is what
\* follows its last occurrence, trimmed; without the cue the answer is the
\* raw output unchanged, blanks at its ends included
C11_ExtractTrimsAfterCue ==
    extraction.done =>
        IF HasCue(extraction.raw)
        THEN IsTrimOf(extraction.answer, AfterLastCue(extraction.raw))
        ELSE extraction.answer = extraction.raw

C11_Witness ==
    /\ extraction.done
    /\ extraction.raw = Cue \o <<"P">> \o Cue
    /\ extraction.answer = <<>>

----------------------------------------------------------------------------
(* Properties of the responses, checked under Spec *)

\* C12: a successful response has no sources unless the request asked for
\* them, even when passages were retrieved; when it asked, the sources are
\* the texts of the retrieved passages in rank order, at most k = 4
C12_SourcesOnlyOnRequest ==
    [][(QuerySources /\ req'.resp.shape = "answer")
          => IF ~req.include_sources
             THEN req'.resp.sources = NoSources
             ELSE /\ req'.resp.sources.present
                  /\ Len(req'.resp.sources.texts) = Min(NumPassages(index), K)
                  /\ Len(req'.resp.sources.texts) <= 4
                  /\ \E seed \in Seeds(req'.emb, index, req.question) :
                       \A i \in 1..Len(req'.resp.sources.texts) :
                          req'.resp.sources.texts[i] = Ranked(index, seed)[i]]_vars

C12_Witness ==
    /\ req.pc = "done"
    /\ req.resp.shape = "answer"
    /\ req.include_sources
    /\ NumPassages(index) > K
    /\ Len(req.resp.sources.texts) = K
----------------------------------------------------------------------------
(* Properties of get_embeddings, checked under SpecEmb *)

\* the steps of the ladder: enterprise endpoint, local model, hosted API,
\* stub
Step(e) ==
    IF e.kind = "AzureOpenAIEmbeddings" THEN 1
    ELSE IF e.kind = "HuggingFaceEmbeddings" THEN 2
    ELSE IF e.kind = "OpenAIEmbeddings" THEN 3
    ELSE 4

EmbCalls == embCall.res.calls

\* whether the constructor of attempt i raises in this call
Raises(i) ==
    LET e == EmbCalls[i].emb
    IN  \/ e = AzureAda /\ embCall.fails.ada
        \/ e = AzureDeployment /\ embCall.fails.dep
        \/ e = HuggingFace /\ embCall.fails.hf
        \/ e = OpenAI /\ (embCall.fails.openai \/ environ = EnvUnset)

\* C16: the enterprise endpoint is attempted only for provider azure with
\* a credential; the attempts follow the order enterprise, local model,
\* hosted API, stub without leaving a step out; an attempt is made only
\* after the previous one raised and the result is the first success
C16_LadderInOrder ==
    embCall.called =>
        /\ (\E i \in 1..Len(EmbCalls) : Step(EmbCalls[i].emb) = 1)
              => /\ cfgFile.llm_provider = "azure"
                 /\ cfgFile.api_token \notin {NoToken, <<>>}
        /\ Len(EmbCalls) >= 1
        /\ Step(EmbCalls[1].emb) \in {1, 2}
        /\ \A i \in 1..(Len(EmbCalls) - 1) :
              /\ Step(EmbCalls[i].emb) <= Step(EmbCalls[i + 1].emb)
              /\ Step(EmbCalls[i + 1].emb) <= Step(EmbCalls[i].emb) + 1
              /\ EmbCalls[i].emb # EmbCalls[i + 1].emb
              /\ ~EmbCalls[i].ok
              /\ Raises(i)
        /\ EmbCalls[Len(EmbCalls)].ok
        /\ ~Raises(Len(EmbCalls))
        /\ embCall.res.out = "return"
        /\ embCall.res.emb = EmbCalls[Len(EmbCalls)].emb

C16_Witness ==
    /\ embCall.called
    /\ Len(EmbCalls) = 5
    /\ embCall.res.emb = Fake

\* C17: whatever the file is and whichever constructors raise,
\* get_embeddings returns an embedding function and does not raise; when
\* no constructor succeeds it is the stub of 384 dimensions
C17_NeverRaises ==
    embCall.called =>
        /\ embCall.res.out = "return"
        /\ embCall.res.emb \in Embs
        /\ (/\ embCall.fails.hf
            /\ embCall.fails.openai \/ environ = EnvUnset
            /\ UsesAzure(cfgFile) => embCall.fails.ada /\ embCall.fails.dep)
              => /\ embCall.res.emb.kind = "FakeEmbeddings"
                 /\ embCall.res.emb.size = 384

C17_Witness ==
    /\ embCall.called
    /\ cfgFile.kind = "malformed"
    /\ embCall.fails.hf
    /\ embCall.before = EnvUnset
    /\ embCall.res.emb = Fake
----------------------------------------------------------------------------
(* Properties of the index loader, checked under Spec *)

\* C19: get_retriever returns None only when no index exists at the path,
\* so that a request is answered "No vector store available. Please ingest
\* documents first." only when nothing has been ingested
C19_NoneOnlyWithoutIndex ==
    [][(/\ req' # req
        /\ req'.pc = "done"
        /\ req'.resp = ErrorResp(NoVectorStore))
          => /\ index = NoIndex
             /\ \A loadFails \in BOOLEAN :
                   GetRetriever(index, loadFails) = NoRetriever]_vars
----------------------------------------------------------------------------
(* Properties of the embedding functions in the service, checked under    *)
(* Spec                                                                    *)

\* C13: when the same question is asked twice in succession with the same
\* body, nothing is saved, persisted or restarted in between, both requests
\* resolve the same embedding function and both are answered, the two
\* responses are identical
C13_SameQuestionSameResponse ==
    (/\ req.pc = "done"
     /\ req.resp.shape = "answer"
     /\ req.prev # NoAnswered
     /\ req.prev.emb = req.emb)
      => req.resp = req.prev.resp

\* C18: whenever the handler retrieves the passages of a request from the
\* index it loaded, the embedding function it resolved for the load is the
\* one the index was built with
C18_EmbeddingOfTheIndex ==
    [][(QuerySources /\ req'.resp.shape = "answer")
          => /\ req'.emb = indexEmb
             /\ req'.emb.size = indexEmb.size]_vars

\* C20: handling a request leaves nothing in the process that changes
\* which embedding backend, or which credential of the hosted embedding
\* API, a later request resolves for any configuration on disk
C20_RequestsIndependent ==
    [][(QueryCheck \/ QueryInvoke \/ QuerySources)
          => \A file \in SavedFiles :
                /\ ResolvedEmbs(file, environ') = ResolvedEmbs(file, environ)
                /\ OpenAI \in ResolvedEmbs(file, environ')
                      => environ' = environ]_vars
----------------------------------------------------------------------------
(* Properties of the steps of a request, checked under Spec *)

Positions(s, step) == {i \in 1..Len(s) : s[i] = step}

\* C21: a request loads the index at most once and retrieves at most once,
\* in the order load, retrieve, generate, extract, and does not retrieve
\* after the generation
C21_EachStepOnceInOrder ==
    /\ Cardinality(Positions(req.steps, "load")) <= 1
    /\ Cardinality(Positions(req.steps, "retrieve")) <= 1
    /\ Cardinality(Positions(req.steps, "generate")) <= 1
    /\ Cardinality(Positions(req.steps, "extract")) <= 1
    /\ \A i \in Positions(req.steps, "retrieve"),
          j \in Positions(req.steps, "generate") : i < j
    /\ \A i \in Positions(req.steps, "load"),
          j \in Positions(req.steps, "retrieve") : i < j

\* C22: the sources of a response whose answer was generated are the
\* passages that were the context of that generation
C22_SourcesAreTheContext ==
    (/\ req.pc = "done"
     /\ req.resp.shape = "answer"
     /\ req.include_sources
     /\ req.raw.kind = "generated")
      => req.resp.sources.texts = ContextOf(req.raw)
----------------------------------------------------------------------------
(* Providers of the configuration form, checked under SpecLlm *)

\* C26: a configuration file whose llm_provider is a value the form of
\* the UI offers never makes get_llm raise 400 'Unsupported LLM provider'
C26_UIProvidersAccepted ==
    (/\ llmCall.called
     /\ cfgFile.kind = "llm"
     /\ cfgFile.llm_provider \in UIProviders)
      => ~RaisedHTTP(400)
----------------------------------------------------------------------------
(* Frame of the request handler, checked under Spec *)

\* C25: no step of a /query request (and so of a /rag request, which
\* calls query) changes the configuration file or the vector index,
\* whatever the outcome of the step
C25_RequestsWriteNothing ==
    [][(QueryCheck \/ QueryInvoke \/ QuerySources)
         => /\ cfgFile' = cfgFile
            /\ index' = index
            /\ indexEmb' = indexEmb]_vars

C25_Witness ==
    /\ req.pc = "done"
    /\ req.resp.shape = "answer"
    /\ cfgFile.kind = "llm"
    /\ index # NoIndex
----------------------------------------------------------------------------
(* Properties of the prompt, checked under SpecPrompt *)

\* what the recorded prompt holds between "Context: " and the tail of the
\* template
PromptContext ==
    SubSeq(promptCall.prompt,
           Len(TemplateHead) + Len(promptCall.question) + Len(TemplateMid) + 1,
           Len(promptCall.prompt) - Len(TemplateTail))

\* where the i-th text starts in a context whose texts are two newlines
\* apart
RECURSIVE Offset(_, _)
Offset(texts, i) ==
    IF i = 1 THEN 0 ELSE Offset(texts, i - 1) + Len(texts[i - 1]) + 2

IsSpace(c) == c \in {" ", "\n"}
\* the position of the last piece of s that is not white space
LastInk(s) ==
    CHOOSE k \in 1..Len(s) :
        ~IsSpace(s[k]) /\ \A j \in (k + 1)..Len(s) : IsSpace(s[j])

\* C23: the prompt is the fixed template around the question and the
\* context; the context holds the texts in their order, a blank line
\* (two newlines) between neighbours and nothing else, so no text gives
\* the empty context; the cue "Answer:" is the last thing of the prompt
\* but white space
C23_PromptAssembly ==
    promptCall.called =>
        LET texts == promptCall.texts
            n == Len(texts)
            prompt == promptCall.prompt
            lead == TemplateHead \o promptCall.question \o TemplateMid
        IN  /\ SubSeq(prompt, 1, Len(lead)) = lead
            /\ SubSeq(prompt, Len(prompt) - Len(TemplateTail) + 1,
                      Len(prompt)) = TemplateTail
            /\ Len(PromptContext) =
                 IF n = 0 THEN 0 ELSE Offset(texts, n) + Len(texts[n])
            /\ \A i \in 1..n :
                 SubSeq(PromptContext, Offset(texts, i) + 1,
                        Offset(texts, i) + Len(texts[i])) = texts[i]
            /\ \A i \in 2..n :
                 SubSeq(PromptContext, Offset(texts, i) - 1,
                        Offset(texts, i)) = <<"\n", "\n">>
            /\ SubSeq(prompt, LastInk(prompt) - Len(Cue) + 1,
                      LastInk(prompt)) = Cue

C23_Witness ==
    /\ promptCall.called
    /\ Len(promptCall.texts) = 3
    /\ promptCall.texts[1] # promptCall.texts[2]
    /\ promptCall.texts[3] = <<>>
----------------------------------------------------------------------------
(* Properties of the wrapper, checked under SpecWrap *)

\* C24: the wrapper strips the prompt exactly when its pipeline returns
\* the prompt with the continuation (is_t5 is set exactly for a
\* text2text-generation pipeline), and what it returns is the
\* continuation, respectively the direct answer, unchanged
C24_FramingMatchesPipeline ==
    wrapCall.called =>
        /\ wrapCall.llm.is_t5 <=> wrapCall.llm.task = "text2text-generation"
        /\ wrapCall.out = wrapCall.cont
----------------------------------------------------------------------------
(* Properties of the query form, checked under SpecUi *)

\* C27: a submission that /query answers with a handled error ends with
\* the error shown: the error of the form and the error of the page are
\* not empty
C27_HandledErrorShown ==
    [][(\E r \in ui.inflight : Respond(r, "handled"))
         => ui'.error # "" /\ ui'.globalError # ""]_vars

\* C28: the two loading flags are set exactly while a request is in
\* flight
C28_LoadingWhileInFlight ==
    /\ ui.isLoading <=> ui.inflight # {}
    /\ ui.globalIsLoading <=> ui.inflight # {}

SixOptions ==
    {<<"local", m>> : m \in Methods}
    \cup {<<"google", "drive", m>> : m \in Methods}

\* C29: searchOption is one of the six values and the search method a
\* submission would send is the method the user selected last
C29_MethodKept ==
    /\ ui.searchOption \in SixOptions
    /\ SearchMethod(ui.searchOption) = ui.method

\* C30: when every submission has completed and the form shows an
\* error, the answer panel is empty
C30_NoAnswerWithError ==
    (ui.submitted > 0 /\ ui.inflight = {} /\ ui.error # "")
        => ui.localAnswer = ""

====
